---- MODULE Spec2Model ----
(***************************************************************************)
(* The x402 pay-per-request protocol of Ap402: the two gateway             *)
(* middlewares (createPaymentMiddleware of the facilitator SDK and         *)
(* createX402Middleware of the server package), the PaymentHandler, the    *)
(* AptosFacilitator (mock and live mode) and the ledger it submits to.     *)
(*                                                                         *)
(* Strings that the code inspects character by character (route keys,      *)
(* request paths, regular expressions) are sequences of one-character      *)
(* strings; strings the code only copies or compares are TLA+ strings.     *)
(***************************************************************************)
EXTENDS Integers, Sequences, FiniteSets, TLC

(* ------------------------------------------------------------------ *)
(* Bounds of the model                                                 *)
(* ------------------------------------------------------------------ *)

\* Requests (to the gateway or to POST /verify) in one behaviour.
MaxReq == 2

\* Clock advances in one behaviour.
MaxTicks == 1

\* Gateway requests waiting for the facilitator's answer at one time.
MaxInFlight == 1

(* ------------------------------------------------------------------ *)
(* Strings, request lines                                              *)
(* ------------------------------------------------------------------ *)

GET == <<"G", "E", "T">>

POST == <<"P", "O", "S", "T">>

Methods == {GET, POST}

PathWeather == <<"/", "w">>

PathPremium == <<"/", "p", "/", "a">>

PathJob == <<"/", "j">>

PathMalformed == <<"/", "m">>

PathFree == <<"/", "f">>

Paths == {PathWeather, PathPremium, PathJob, PathMalformed, PathFree}

\* The request lines the clients send: each path with GET, and the two paths
\* on which the tables tell POST from GET.
RequestLines ==
  {<<GET, p>> : p \in Paths} \cup {<<POST, PathJob>>, <<POST, PathMalformed>>}

\* `${req.method} ${req.path}`
RouteKey(method, path) == method \o <<" ">> \o path

(* ------------------------------------------------------------------ *)
(* JavaScript values of a route's price                                *)
(* ------------------------------------------------------------------ *)

NativeCoin == "0x1::aptos_coin::AptosCoin"

OtherCoin == "0xa::usd::USD"

\* price: "1000000"
StrPrice(a) == [t |-> "string", amount |-> a, asset |-> ""]

\* price: {amount, asset: {address, decimals}}; asset "" is an absent asset
ObjPrice(a, asset) == [t |-> "object", amount |-> a, asset |-> asset]

\* a route entry without price
Undefined == [t |-> "undefined", amount |-> "", asset |-> ""]

\* price: null
Null == [t |-> "null", amount |-> "", asset |-> ""]

\* parseInt of the amounts the tables and the proofs use
Octas(a) ==
  CASE a = "1000000" -> 1000000
    [] a = "2000000" -> 2000000
    [] a = "5000000" -> 5000000
    [] a = "10000000" -> 10000000
    [] OTHER -> 0

(* ------------------------------------------------------------------ *)
(* Route tables: Object.entries order is insertion order               *)
(* ------------------------------------------------------------------ *)

\* The facilitator SDK's example server and the agents' "/job" route.
TableSdk ==
  << [key |-> RouteKey(GET, PathWeather), price |-> StrPrice("1000000")],
     [key |-> <<"/", "p", "/", "*">>, price |-> ObjPrice("10000000", OtherCoin)],
     [key |-> PathJob, price |-> StrPrice("1000000")],
     [key |-> PathMalformed, price |-> Undefined] >>

\* The server package's test server.
TableServer ==
  << [key |-> RouteKey(GET, PathWeather), price |-> StrPrice("1000000")],
     [key |-> GET \o <<" ", "/", "p", "/", "*">>, price |-> ObjPrice("2000000", OtherCoin)],
     [key |-> RouteKey(POST, PathJob), price |-> ObjPrice("5000000", "")],
     [key |-> RouteKey(GET, PathMalformed), price |-> Undefined],
     [key |-> RouteKey(POST, PathMalformed), price |-> Null] >>

Tables == {TableSdk, TableServer}

(* ------------------------------------------------------------------ *)
(* Route matching                                                      *)
(* ------------------------------------------------------------------ *)

\* routePath.includes('*')
IncludesStar(s) == \E i \in 1..Len(s) : s[i] = "*"

\* routePath.replace(/\*/g, '.*')
RECURSIVE ReplaceStar(_)
ReplaceStar(s) ==
  IF s = <<>> THEN <<>>
  ELSE IF Head(s) = "*" THEN <<".", "*">> \o ReplaceStar(Tail(s))
       ELSE <<Head(s)>> \o ReplaceStar(Tail(s))

\* One atom of the regular expression against one character.
AtomMatches(a, c) == a = "." \/ a = c

\* new RegExp(`^${pattern}$`).test(s), for patterns of literals, "." and "x*"
RECURSIVE RegexTest(_, _)
RegexTest(p, s) ==
  IF p = <<>> THEN s = <<>>
  ELSE IF Len(p) >= 2 /\ p[2] = "*"
       THEN \/ RegexTest(SubSeq(p, 3, Len(p)), s)
            \/ /\ s # <<>>
               /\ AtomMatches(p[1], Head(s))
               /\ RegexTest(p, Tail(s))
       ELSE /\ s # <<>>
            /\ AtomMatches(p[1], Head(s))
            /\ RegexTest(Tail(p), Tail(s))

\* routes[key], 0 when absent
ExactIndex(key, routes) ==
  IF \E i \in 1..Len(routes) : routes[i].key = key
  THEN CHOOSE i \in 1..Len(routes) : routes[i].key = key
  ELSE 0

WildcardHit(key, routes, i) ==
  /\ IncludesStar(routes[i].key)
  /\ RegexTest(ReplaceStar(routes[i].key), key)

\* The last wildcard entry, in table order, that matches.
WildcardIndexLast(key, routes) ==
  IF \E i \in 1..Len(routes) : WildcardHit(key, routes, i)
  THEN CHOOSE i \in 1..Len(routes) :
         /\ WildcardHit(key, routes, i)
         /\ \A j \in (i + 1)..Len(routes) : ~WildcardHit(key, routes, j)
  ELSE 0

\* the first wildcard entry, in table order, that matches; 0 when none
WildcardIndex(key, routes) ==
  IF \E i \in 1..Len(routes) : WildcardHit(key, routes, i)
  THEN CHOOSE i \in 1..Len(routes) :
         /\ WildcardHit(key, routes, i)
         /\ \A j \in 1..(i - 1) : ~WildcardHit(key, routes, j)
  ELSE 0

\* A lookup that returns the first entry, in table order, that matches,
\* exactly or by its wildcard.
MatchIndexInOrder(key, routes) ==
  IF \E i \in 1..Len(routes) : routes[i].key = key \/ WildcardHit(key, routes, i)
  THEN CHOOSE i \in 1..Len(routes) :
         /\ routes[i].key = key \/ WildcardHit(key, routes, i)
         /\ \A j \in 1..(i - 1) : ~(routes[j].key = key \/ WildcardHit(key, routes, j))
  ELSE 0

\* The index of the matched entry, 0 for null.
MatchIndex(key, routes) ==
  IF ExactIndex(key, routes) # 0 THEN ExactIndex(key, routes)
  ELSE WildcardIndex(key, routes)

\* payment-middleware.ts: the key looked up is req.path alone.
findMatchingRoute(path, routes) == MatchIndex(path, routes)

\* A matcher that asks payment for every route.
isPaymentRequiredAlways(route, paymentRoutes) == TRUE

\* PaymentHandler.isPaymentRequired
isPaymentRequired(route, paymentRoutes) == MatchIndex(route, paymentRoutes) # 0

\* PaymentHandler.getPaymentConfig
getPaymentConfig(route, paymentRoutes) == MatchIndex(route, paymentRoutes)

(* ------------------------------------------------------------------ *)
(* Challenges (the 402 body)                                           *)
(* ------------------------------------------------------------------ *)

\* 5 * 60 * 1000 ms
Window == 5 * 60 * 1000

\* The address payments go to (payTo, config.paymentAddress).
PayTo == "0xpayto"

\* Math.random().toString(36) tokens
Nonces == {"n1", "n2"}

NoBody ==
  [amount |-> Undefined, token |-> "", recipient |-> "", deadline |-> 0,
   nonce |-> "", message |-> "", error |-> ""]

\* createPaymentMiddleware's 402 body: amount is route.price itself, the
\* token is always the native coin, no nonce.
SdkChallenge(price, t, message, error) ==
  [amount |-> price, token |-> NativeCoin, recipient |-> PayTo,
   deadline |-> t + Window, nonce |-> "", message |-> message, error |-> error]

\* typeof price === 'string' ? price : price.amount  (price.amount of
\* undefined or null throws)
PriceThrows(price) == price.t \in {"undefined", "null"}

\* The message of the TypeError thrown.
ThrowDetail(price) ==
  IF price.t = "undefined"
  THEN "Cannot read properties of undefined (reading 'amount')"
  ELSE "Cannot read properties of null (reading 'amount')"

\* A 500 body that echoes the error's message.
InternalErrorEchoed(detail) == [NoBody EXCEPT !.error = detail]

\* The middleware's catch: console.error(detail), then
\* res.status(500).json({error: 'Internal server error in payment processing'})
InternalError(detail) ==
  [NoBody EXCEPT !.error = "Internal server error in payment processing"]

\* A deadline of 5 * 60 units of a clock that counts milliseconds.
createPaymentRequiredSeconds(price, t, nonce) ==
  [amount |-> StrPrice(price.amount),
   token |-> IF price.t = "string" THEN NativeCoin
             ELSE IF price.asset # "" THEN price.asset ELSE NativeCoin,
   recipient |-> PayTo, deadline |-> t + 5 * 60, nonce |-> nonce,
   message |-> "required", error |-> ""]

\* PaymentHandler.createPaymentRequired, for a price it does not throw on
createPaymentRequired(price, t, nonce) ==
  [amount |-> StrPrice(price.amount),
   token |-> IF price.t = "string" THEN NativeCoin
             ELSE IF price.asset # "" THEN price.asset ELSE NativeCoin,
   recipient |-> PayTo, deadline |-> t + Window, nonce |-> nonce,
   message |-> "required", error |-> ""]

(* ------------------------------------------------------------------ *)
(* Proofs, hashes, verification results                                *)
(* ------------------------------------------------------------------ *)

\* A string of which the code keeps the first 32 characters: head is that
\* prefix when the string is at least 32 long, the whole string when it is
\* at most 19 long (so that a 13-digit timestamp appended to it is kept).
LongStr(h) == [head |-> h, long |-> TRUE]

ShortStr(h) == [head |-> h, long |-> FALSE]

\* The fields of the PaymentRequest interface.
ProofFields == {"transaction", "signature", "publicKey", "address", "timestamp"}

\* An address other than the gateway's payment address.
OtherAddress == "0xother"

\* The X-Payment envelopes the clients send.  transaction.form: "tx" a
\* signed transfer, "notjson" a string JSON.parse rejects, "walletmsg" a
\* wallet message signature {prefix: 'APTOS', message}; transaction.id is
\* the hash the ledger gives the transaction, transaction.to and
\* transaction.amount the transfer's arguments.  fields: the fields the
\* envelope has; signed: whether the signature is one of the sender's key
\* over the transaction.
Proof ==
  << [transaction |-> [form |-> "tx", id |-> "t1", json |-> LongStr("j1"),
                       to |-> PayTo, amount |-> 1000000],
      signature |-> "hex", address |-> LongStr("A"),
      fields |-> ProofFields, signed |-> TRUE],
     [transaction |-> [form |-> "tx", id |-> "t2", json |-> LongStr("j2"),
                       to |-> OtherAddress, amount |-> 10000000],
      signature |-> "json", address |-> ShortStr("b"),
      fields |-> ProofFields, signed |-> TRUE],
     [transaction |-> [form |-> "notjson", id |-> "", json |-> ShortStr(""),
                       to |-> "", amount |-> 0],
      signature |-> "hex", address |-> LongStr("A"),
      fields |-> ProofFields, signed |-> TRUE],
     [transaction |-> [form |-> "walletmsg", id |-> "", json |-> LongStr("jm"),
                       to |-> "", amount |-> 0],
      signature |-> "hex", address |-> ShortStr("b"),
      fields |-> ProofFields, signed |-> TRUE],
     [transaction |-> [form |-> "tx", id |-> "t1", json |-> LongStr("j1"),
                       to |-> PayTo, amount |-> 1000000],
      signature |-> "garbage", address |-> LongStr("A"),
      fields |-> ProofFields, signed |-> FALSE],
     [transaction |-> [form |-> "tx", id |-> "t2", json |-> LongStr("j2"),
                       to |-> OtherAddress, amount |-> 10000000],
      signature |-> "hex", address |-> ShortStr("b"),
      fields |-> ProofFields, signed |-> FALSE],
     [transaction |-> [form |-> "tx", id |-> "t1", json |-> LongStr("j1"),
                       to |-> PayTo, amount |-> 1000000],
      signature |-> "hex", address |-> LongStr("A"),
      fields |-> {"transaction", "signature", "address"}, signed |-> TRUE] >>

ProofIds == 1..Len(Proof)

TxIds == {"t1", "t2"}

\* Header of a gateway request: no X-Payment, one that is not JSON, a proof.
NoHeader == 0

GarbageHeader == -1

Headers == {NoHeader, GarbageHeader} \cup ProofIds

NoHash == [k |-> "none", src |-> "", at |-> 0]

\* `0x${Buffer.from(str + Date.now()).toString('hex').slice(0, 64)}`
Hex32(str, t) == [k |-> "hex", src |-> str.head, at |-> IF str.long THEN 0 ELSE t]

\* response.hash of the ledger
LedgerHash(tx) == [k |-> "ledger", src |-> tx.id, at |-> 0]

NoRes == [isValid |-> FALSE, hash |-> NoHash, error |-> "", verifiedAt |-> 0]

Valid(hash, t) == [isValid |-> TRUE, hash |-> hash, error |-> "", verifiedAt |-> t]

Invalid(error, t) == [isValid |-> FALSE, hash |-> NoHash, error |-> error, verifiedAt |-> t]

\* AptosFacilitator.verifySignature: returns true
verifySignature(proof) == TRUE

\* AptosFacilitator.processPayment in mock mode
processPaymentMock(proof, t) ==
  IF proof.transaction.form = "notjson" THEN Invalid("Unexpected token", t)
  ELSE IF ~verifySignature(proof) THEN Invalid("Invalid signature", t)
  ELSE Valid(Hex32(proof.address, t), t)

\* PaymentHandler.createMockVerification
createMockVerification(t) == Valid(Hex32(ShortStr(""), t), t)

\* The part of createRealVerification and submitTransaction that runs before
\* the ledger is called: "" when the submission goes ahead, else the error.
PreSubmitError(proof) ==
  IF proof.transaction.form = "notjson" THEN "Unexpected token"
  ELSE IF ~verifySignature(proof) THEN "Invalid signature"
  ELSE IF proof.signature = "garbage"
       THEN "Failed to submit transaction: Invalid signature format"
  ELSE IF proof.transaction.form = "walletmsg"
       THEN "Failed to submit transaction: Real mode requires actual blockchain transactions"
  ELSE ""

\* submitTransaction's catch: an error whose message includes 'timeout' or
\* 'confirmation' yields a hash all the same.
SubmitCatch(proof, mentionsTimeout, errHash, t) ==
  IF mentionsTimeout
  THEN Valid(IF errHash # NoHash THEN errHash
             ELSE Hex32(proof.transaction.json, t), t)
  ELSE Invalid("Failed to submit transaction", t)

\* The signature is a string that neither starts with 0x nor is JSON:
\* submitTransaction throws `Invalid signature format: ${error.message}`
\* inside its try.
SignatureUnparsable(proof) ==
  /\ proof.transaction.form # "notjson"
  /\ verifySignature(proof)
  /\ proof.signature = "garbage"

\* The result of a verification that fails before the ledger is called.
\* The error of the signature's JSON.parse goes through submitTransaction's
\* catch; mentionsTimeout: its message includes 'timeout' or 'confirmation'
\* (the engine quotes the text it could not parse, and the signature's text
\* has the word).
PreSubmitResult(proof, mentionsTimeout, t) ==
  IF SignatureUnparsable(proof) /\ mentionsTimeout
  THEN SubmitCatch(proof, TRUE, NoHash, t)
  ELSE Invalid(PreSubmitError(proof), t)

(* ------------------------------------------------------------------ *)
(* State                                                               *)
(* ------------------------------------------------------------------ *)

VARIABLES
  deploy,        \* what is deployed: the middleware (or the facilitator server
                 \* alone), its mockMode, its route table
  now,           \* Date.now()
  nreq,          \* requests received so far
  reqs,          \* the requests whose handler is suspended at an await
  last,          \* the request the step just taken completed, with its
                 \* response (NoResponse when the step completed none)
  lastChallenge, \* deadline of the challenge issued last (0: none yet)
  admitted,      \* proofs the gateway has admitted a request with
  submits,       \* calls of the ledger's submit, per transaction
  verdicts,      \* what POST /verify answered, per request posted to it
  overlap,       \* pairs of requests that were in flight at the same time
  mock,          \* an AptosFacilitator or PaymentHandler called by itself: its
                 \* configuration and the calls made of it
  client,        \* one call of X402Client.request
  match          \* a route table and the lookups made in it

vars ==
  <<deploy, now, nreq, reqs, last, lastChallenge, admitted, submits, verdicts, overlap,
    mock, client, match>>

\* Nothing is called by itself, no client call is under way, no lookup made.
NoMock == [mockMode |-> "unset", runs |-> <<>>]

NoClient == [pc |-> "none"]

NoMatch == [table |-> <<>>, evals |-> <<>>]

\* Date.now() at start
StartTime == 1000

ReqIds == 1..MaxReq

\* nver: calls of verify (verifyPayment, processPayment) made for the request;
\* nsub: submissions to the ledger made for it; ledger: what the ledger said
\* of the last one ("none", "SubmitFailed", "Confirmed", "TimedOut", "Failed").
Idle ==
  [target |-> "none", method |-> <<>>, path |-> <<>>, hdr |-> NoHeader,
   expired |-> FALSE, pc |-> "idle", vres |-> NoRes,
   nver |-> 0, nsub |-> 0, ledger |-> "none"]

\* A request as it arrives.  expired: it carries a proof built for the
\* challenge issued last, and arrives after that challenge's deadline.
Request(target, method, path, hdr) ==
  [target |-> target, method |-> method, path |-> path, hdr |-> hdr,
   expired |-> hdr \in ProofIds /\ lastChallenge # 0 /\ now > lastChallenge,
   pc |-> "recv", vres |-> NoRes, nver |-> 0, nsub |-> 0, ledger |-> "none"]

NoVerdict == [proof |-> 0, isValid |-> FALSE, hash |-> NoHash]

Verdict(p, res) == [proof |-> p, isValid |-> res.isValid, hash |-> res.hash]

\* The response to request r (status "next": the downstream handler ran),
\* ctx the transactionHash put on the request, replay whether a proof with
\* the same transaction had been admitted before.
Response(r, status, body, ctx) ==
  [target |-> r.target, method |-> r.method, path |-> r.path, hdr |-> r.hdr,
   expired |-> r.expired, vres |-> r.vres,
   nver |-> r.nver, nsub |-> r.nsub, ledger |-> r.ledger,
   status |-> status, body |-> body, ctx |-> ctx, at |-> now,
   replay |-> /\ status = "next"
              /\ r.hdr \in ProofIds
              /\ \E p \in admitted : Proof[p].transaction = Proof[r.hdr].transaction]

NoResponse ==
  [target |-> "none", method |-> <<>>, path |-> <<>>, hdr |-> NoHeader,
   expired |-> FALSE, vres |-> NoRes, nver |-> 0, nsub |-> 0, ledger |-> "none",
   status |-> "none",
   body |-> NoBody, ctx |-> NoHash, at |-> 0, replay |-> FALSE]

InFlight(i) == reqs[i].pc # "idle"

\* Request i suspends: every request still in flight overlaps it.
Suspend(i, r) ==
  /\ reqs' = [reqs EXCEPT ![i] = r]
  /\ overlap' = overlap \cup {<<j, i>> : j \in {k \in ReqIds : InFlight(k)}}

\* A verification that resubmits once after a failed or timed-out
\* submission.
ReturnedOrResubmitted(r, res, outcome) ==
  IF outcome \in {"SubmitFailed", "TimedOut", "Failed"} /\ r.nsub < 2
  THEN [r EXCEPT !.pc = "submitting", !.nsub = @ + 1]
  ELSE [r EXCEPT !.pc = "verified", !.vres = res, !.ledger = outcome]

\* The verification of request r has returned res; outcome is what the
\* ledger said of the submission ("none" when there was none).
Returned(r, res, outcome) ==
  [r EXCEPT !.pc = "verified", !.vres = res, !.ledger = outcome]

Return(i, res, outcome) == reqs' = [reqs EXCEPT ![i] = Returned(reqs[i], res, outcome)]

Init ==
  /\ deploy \in [gw : {"sdk", "server", "facilitator"}, mockMode : BOOLEAN, routes : Tables]
  /\ deploy.gw = "sdk" => deploy.mockMode
  /\ deploy.gw = "facilitator" => ~deploy.mockMode /\ deploy.routes = TableSdk
  /\ now = StartTime
  /\ nreq = 0
  /\ reqs = [i \in ReqIds |-> Idle]
  /\ last = NoResponse
  /\ lastChallenge = 0
  /\ admitted = {}
  /\ submits = [t \in TxIds |-> 0]
  /\ verdicts = [i \in ReqIds |-> NoVerdict]
  /\ overlap = {}
  /\ mock = NoMock
  /\ client = NoClient
  /\ match = NoMatch

(* ------------------------------------------------------------------ *)
(* The gateway of the facilitator SDK: createPaymentMiddleware         *)
(* ------------------------------------------------------------------ *)

\* The request completes: its response is sent, or next() is called.
Complete(resp) ==
  /\ last' = resp
  /\ lastChallenge' = IF resp.status = "402" THEN resp.body.deadline ELSE lastChallenge
  /\ admitted' = IF resp.status = "next" /\ resp.hdr \in ProofIds /\ resp.vres.isValid
                 THEN admitted \cup {resp.hdr} ELSE admitted

\* The middleware after `await facilitator.processPayment(paymentRequest)`.
SdkAfterVerify(r, idx) ==
  IF ~r.vres.isValid
  THEN Response(r, "402",
         SdkChallenge(deploy.routes[idx].price, now, "failed", r.vres.error), NoHash)
  ELSE Response(r, "next", NoBody, r.vres.hash)

\* A middleware that verifies whatever proof a request carries before it
\* looks the route up.
SdkMiddlewareVerifiesFirst(r) ==
  LET idx == findMatchingRoute(r.path, deploy.routes)
      v == IF r.hdr \in ProofIds
           THEN [r EXCEPT !.vres = processPaymentMock(Proof[r.hdr], now), !.nver = @ + 1]
           ELSE r
  IN IF idx = 0 THEN Response(v, "next", NoBody, NoHash)
     ELSE IF r.hdr = NoHeader
     THEN Response(r, "402",
            SdkChallenge(deploy.routes[idx].price, now, "required", ""), NoHash)
     ELSE IF r.hdr = GarbageHeader THEN Response(r, "400", NoBody, NoHash)
     ELSE SdkAfterVerify(v, idx)

\* The middleware on request r.  Its facilitator is in mock mode: the awaits
\* resolve without I/O, so the handler runs to its end before any other.
SdkMiddleware(r) ==
  LET idx == findMatchingRoute(r.path, deploy.routes)
  IN IF idx = 0 THEN Response(r, "next", NoBody, NoHash)
     ELSE IF r.hdr = NoHeader
     THEN Response(r, "402",
            SdkChallenge(deploy.routes[idx].price, now, "required", ""), NoHash)
     ELSE IF r.hdr = GarbageHeader THEN Response(r, "400", NoBody, NoHash)
     ELSE SdkAfterVerify([r EXCEPT !.vres = processPaymentMock(Proof[r.hdr], now),
                                    !.nver = @ + 1], idx)

SdkReceive(method, path, hdr) ==
  /\ deploy.gw = "sdk"
  /\ nreq < MaxReq
  /\ nreq' = nreq + 1
  /\ Complete(SdkMiddleware(Request("gateway", method, path, hdr)))
  /\ UNCHANGED <<deploy, now, reqs, submits, verdicts, overlap>>
  /\ UNCHANGED <<mock, client, match>>

(* ------------------------------------------------------------------ *)
(* The gateway of the server package: createX402Middleware             *)
(* ------------------------------------------------------------------ *)

\* res.status(402).json(createPaymentRequired(route, paymentConfig.price)),
\* or the catch's 500 when paymentConfig is null or createPaymentRequired
\* throws.
ServerChallenge(r, idx, nonce, failed) ==
  IF idx = 0
  THEN Response(r, "500",
         InternalError("Cannot read properties of null (reading 'price')"), NoHash)
  ELSE IF PriceThrows(deploy.routes[idx].price)
  THEN Response(r, "500", InternalError(ThrowDetail(deploy.routes[idx].price)), NoHash)
  ELSE Response(r, "402",
         [createPaymentRequired(deploy.routes[idx].price, now, nonce)
            EXCEPT !.message = IF failed THEN "failed" ELSE "required",
                   !.error = IF failed THEN r.vres.error ELSE ""],
         NoHash)

\* A middleware that calls next() without putting the verification's hash on
\* the request.
ServerAfterVerifyNoContext(r, nonce) ==
  IF ~r.vres.isValid
  THEN ServerChallenge(r, getPaymentConfig(RouteKey(r.method, r.path), deploy.routes),
                       nonce, TRUE)
  ELSE Response(r, "next", NoBody, NoHash)

\* A middleware that fails open: it lets the request through when the
\* facilitator could not be asked.
ServerAfterVerifyFailOpen(r, nonce) ==
  IF ~r.vres.isValid /\ r.vres.error # "Network Error"
  THEN ServerChallenge(r, getPaymentConfig(RouteKey(r.method, r.path), deploy.routes),
                       nonce, TRUE)
  ELSE Response(r, "next", NoBody, r.vres.hash)

\* A middleware that admits whatever the verification said.
ServerAfterVerifyUnchecked(r, nonce) == Response(r, "next", NoBody, r.vres.hash)

\* The middleware after `await paymentHandler.verifyPayment(paymentHeader)`.
ServerAfterVerify(r, nonce) ==
  IF ~r.vres.isValid
  THEN ServerChallenge(r, getPaymentConfig(RouteKey(r.method, r.path), deploy.routes),
                       nonce, TRUE)
  ELSE Response(r, "next", NoBody, r.vres.hash)

\* PaymentHandler.verifyPayment up to its axios.post: the mock verification
\* in mock mode, the catch's result when the header is not JSON; NoRes when
\* the proof is posted to the facilitator.
verifyPaymentLocal(hdr) ==
  IF deploy.mockMode THEN createMockVerification(now)
  ELSE IF hdr = GarbageHeader THEN Invalid("Unexpected token", now)
  ELSE NoRes

\* The middleware on a request that needs no I/O.
ServerMiddleware(r, nonce) ==
  LET route == RouteKey(r.method, r.path)
  IN IF ~isPaymentRequired(route, deploy.routes)
     THEN Response(r, "next", NoBody, NoHash)
     ELSE IF r.hdr = NoHeader
     THEN ServerChallenge(r, getPaymentConfig(route, deploy.routes), nonce, FALSE)
     ELSE ServerAfterVerify([r EXCEPT !.vres = verifyPaymentLocal(r.hdr),
                                       !.nver = @ + 1], nonce)

\* Whether the middleware posts the request's proof to the facilitator.
ServerPosts(r) ==
  /\ isPaymentRequired(RouteKey(r.method, r.path), deploy.routes)
  /\ r.hdr # NoHeader
  /\ verifyPaymentLocal(r.hdr) = NoRes

ServerReceive(method, path, hdr, nonce) ==
  /\ deploy.gw = "server"
  /\ nreq < MaxReq
  /\ nreq' = nreq + 1
  /\ LET r == Request("gateway", method, path, hdr)
     IN IF ServerPosts(r)
        THEN /\ Cardinality({k \in ReqIds : InFlight(k)}) < MaxInFlight
             /\ Suspend(nreq + 1, [r EXCEPT !.pc = "posted", !.nver = @ + 1])
             /\ last' = NoResponse
             /\ UNCHANGED <<lastChallenge, admitted>>
        ELSE /\ Complete(ServerMiddleware(r, nonce))
             /\ UNCHANGED <<reqs, overlap>>
  /\ UNCHANGED <<deploy, now, submits, verdicts>>
  /\ UNCHANGED <<mock, client, match>>

\* A middleware whose branches do not return: after its response it goes on
\* and completes again.
ServerRespondNoReturn(i, nonce) ==
  /\ deploy.gw = "server"
  /\ reqs[i].target = "gateway"
  /\ reqs[i].pc = "verified"
  /\ Complete(ServerAfterVerify(reqs[i], nonce))
  /\ reqs' = [reqs EXCEPT ![i] = IF ~reqs[i].vres.isValid /\ reqs[i].nver = 1
                                  THEN [reqs[i] EXCEPT !.vres = Valid(NoHash, now),
                                                       !.nver = 2]
                                  ELSE Idle]
  /\ UNCHANGED <<deploy, now, nreq, submits, verdicts, overlap>>
  /\ UNCHANGED <<mock, client, match>>

\* The facilitator's answer arrives (or the post failed): the rest of the
\* middleware.
ServerRespond(i, nonce) ==
  /\ deploy.gw = "server"
  /\ reqs[i].target = "gateway"
  /\ reqs[i].pc = "verified"
  /\ Complete(ServerAfterVerify(reqs[i], nonce))
  /\ reqs' = [reqs EXCEPT ![i] = Idle]
  /\ UNCHANGED <<deploy, now, nreq, submits, verdicts, overlap>>
  /\ UNCHANGED <<mock, client, match>>

\* axios.post throws (the facilitator is unreachable, or answers with a status
\* that is not 2xx): verifyPayment's catch.
PostFails(i) ==
  /\ reqs[i].target = "gateway"
  /\ reqs[i].pc = "posted"
  /\ Return(i, Invalid("Network Error", now), "none")
  /\ last' = NoResponse
  /\ UNCHANGED <<deploy, now, nreq, lastChallenge, admitted, submits, verdicts, overlap>>
  /\ UNCHANGED <<mock, client, match>>

(* ------------------------------------------------------------------ *)
(* The facilitator server (live mode): POST /verify                    *)
(* ------------------------------------------------------------------ *)

\* A client posts a proof to /verify itself.
VerifyReceive(p) ==
  /\ deploy.gw = "facilitator"
  /\ nreq < MaxReq
  /\ nreq' = nreq + 1
  /\ Suspend(nreq + 1, [Request("verify", POST, <<>>, p) EXCEPT !.pc = "posted", !.nver = @ + 1])
  /\ last' = NoResponse
  /\ UNCHANGED <<deploy, now, lastChallenge, admitted, submits, verdicts>>
  /\ UNCHANGED <<mock, client, match>>

\* A facilitator that submits the transaction before it parses and validates
\* the proof.
FacilitatorProcessSubmitsFirst(i) ==
  /\ reqs[i].pc = "posted"
  /\ reqs' = [reqs EXCEPT ![i].pc = "submitting", ![i].nsub = @ + 1]
  /\ submits' = [submits EXCEPT ![IF Proof[reqs[i].hdr].transaction.id \in TxIds
                                  THEN Proof[reqs[i].hdr].transaction.id ELSE "t1"] = @ + 1]
  /\ last' = NoResponse
  /\ UNCHANGED <<deploy, now, nreq, lastChallenge, admitted, verdicts, overlap>>
  /\ UNCHANGED <<mock, client, match>>

\* createRealVerification up to the ledger call: parse, verifySignature,
\* submitTransaction's own parsing, then submit.
FacilitatorProcess(i) ==
  /\ reqs[i].pc = "posted"
  /\ LET proof == Proof[reqs[i].hdr]
         err == PreSubmitError(proof)
     IN IF err # ""
        THEN /\ \E mt \in {m \in BOOLEAN : m => SignatureUnparsable(proof)} :
                  Return(i, PreSubmitResult(proof, mt, now), "none")
             /\ UNCHANGED submits
        ELSE /\ reqs' = [reqs EXCEPT ![i].pc = "submitting", ![i].nsub = @ + 1]
             /\ submits' = [submits EXCEPT ![proof.transaction.id] = @ + 1]
  /\ last' = NoResponse
  /\ UNCHANGED <<deploy, now, nreq, lastChallenge, admitted, verdicts, overlap>>
  /\ UNCHANGED <<mock, client, match>>

\* The ledger answers the submission: a hash, or an error.  The ledger
\* accepts no transaction whose signature is not the sender's.
LedgerSubmitReturns(i, accepted, mentionsTimeout) ==
  /\ reqs[i].pc = "submitting"
  /\ accepted => Proof[reqs[i].hdr].signed
  /\ IF accepted
     THEN reqs' = [reqs EXCEPT ![i].pc = "awaiting"]
     ELSE Return(i, SubmitCatch(Proof[reqs[i].hdr], mentionsTimeout, NoHash, now),
                 "SubmitFailed")
  /\ last' = NoResponse
  /\ UNCHANGED <<deploy, now, nreq, lastChallenge, admitted, submits, verdicts, overlap>>
  /\ UNCHANGED <<mock, client, match>>

\* waitForTransaction returns: confirmed, or an error (a timeout, a failed
\* transaction) that may carry the transaction hash.
LedgerWaitReturns(i, confirmed, mentionsTimeout, carriesHash) ==
  /\ reqs[i].pc = "awaiting"
  /\ LET proof == Proof[reqs[i].hdr]
     IN IF confirmed
        THEN Return(i, Valid(LedgerHash(proof.transaction), now), "Confirmed")
        ELSE Return(i, SubmitCatch(proof, mentionsTimeout,
                         IF carriesHash THEN LedgerHash(proof.transaction) ELSE NoHash, now),
                    IF mentionsTimeout THEN "TimedOut" ELSE "Failed")
  /\ last' = NoResponse
  /\ UNCHANGED <<deploy, now, nreq, lastChallenge, admitted, submits, verdicts, overlap>>
  /\ UNCHANGED <<mock, client, match>>

\* res.json(verification) to the client that posted to /verify.
VerifyRespond(i) ==
  /\ reqs[i].target = "verify"
  /\ reqs[i].pc = "verified"
  /\ last' = Response(reqs[i], "200", NoBody, NoHash)
  /\ verdicts' = [verdicts EXCEPT ![i] = Verdict(reqs[i].hdr, reqs[i].vres)]
  /\ reqs' = [reqs EXCEPT ![i] = Idle]
  /\ UNCHANGED <<deploy, now, nreq, lastChallenge, admitted, submits, overlap>>
  /\ UNCHANGED <<mock, client, match>>

(* ------------------------------------------------------------------ *)
(* Time                                                                *)
(* ------------------------------------------------------------------ *)

\* The clock advances by a millisecond, or past a whole challenge window.
TickSteps == {1, Window + 1}

\* Clock advances so far.
Ticks == ((now - StartTime) \div (Window + 1)) + ((now - StartTime) % (Window + 1))

Tick(d) ==
  /\ Ticks < MaxTicks
  /\ now' = now + d
  /\ last' = NoResponse
  /\ UNCHANGED <<deploy, nreq, reqs, lastChallenge, admitted, submits, verdicts, overlap>>
  /\ UNCHANGED <<mock, client, match>>

Next ==
  \/ \E l \in RequestLines, h \in Headers : SdkReceive(l[1], l[2], h)
  \/ \E l \in RequestLines, h \in Headers, n \in Nonces : ServerReceive(l[1], l[2], h, n)
  \/ \E i \in ReqIds, n \in Nonces : ServerRespond(i, n)
  \/ \E i \in ReqIds : PostFails(i)
  \/ \E p \in ProofIds : VerifyReceive(p)
  \/ \E i \in ReqIds : FacilitatorProcess(i)
  \/ \E i \in ReqIds, a \in BOOLEAN, t \in BOOLEAN : LedgerSubmitReturns(i, a, t)
  \/ \E i \in ReqIds, c \in BOOLEAN, t \in BOOLEAN, h \in BOOLEAN : LedgerWaitReturns(i, c, t, h)
  \/ \E i \in ReqIds : VerifyRespond(i)
  \/ \E d \in TickSteps : Tick(d)

Spec == Init /\ [][Next]_vars

(* ------------------------------------------------------------------ *)
(* The orchestrator server: customPaymentMiddleware, whose facilitator  *)
(* is in live mode and in process, and the POST /orchestrate handler    *)
(* ------------------------------------------------------------------ *)

PathOrchestrate == <<"/", "o">>

\* The orchestrator's paymentRoutes: keys are paths.
TableOrch ==
  << [key |-> PathWeather, price |-> StrPrice("1000000")],
     [key |-> <<"/", "p", "/", "*">>, price |-> StrPrice("10000000")],
     [key |-> PathOrchestrate, price |-> StrPrice("10000000")] >>

\* The request lines sent to the orchestrator; POST /orchestrate has a query.
OrchLines ==
  {<<GET, PathWeather>>, <<GET, PathPremium>>, <<GET, PathFree>>, <<POST, PathOrchestrate>>}

InitOrch ==
  /\ deploy = [gw |-> "orchestrator", mockMode |-> FALSE, routes |-> TableOrch]
  /\ now = StartTime
  /\ nreq = 0
  /\ reqs = [i \in ReqIds |-> Idle]
  /\ last = NoResponse
  /\ lastChallenge = 0
  /\ admitted = {}
  /\ submits = [t \in TxIds |-> 0]
  /\ verdicts = [i \in ReqIds |-> NoVerdict]
  /\ overlap = {}
  /\ mock = NoMock
  /\ client = NoClient
  /\ match = NoMatch

\* customPaymentMiddleware on a request: as createPaymentMiddleware, but
\* processPayment runs createRealVerification, which returns at once when
\* the proof fails before the submission and else awaits the ledger.
OrchReceive(method, path, hdr) ==
  /\ deploy.gw = "orchestrator"
  /\ nreq < MaxReq
  /\ nreq' = nreq + 1
  /\ LET r == Request("gateway", method, path, hdr)
         idx == findMatchingRoute(path, deploy.routes)
     IN IF idx = 0
        THEN /\ Complete(Response(r, "next", NoBody, NoHash))
             /\ UNCHANGED <<reqs, overlap, submits>>
        ELSE IF hdr = NoHeader
        THEN /\ Complete(Response(r, "402",
                    SdkChallenge(deploy.routes[idx].price, now, "required", ""), NoHash))
             /\ UNCHANGED <<reqs, overlap, submits>>
        ELSE IF hdr = GarbageHeader
        THEN /\ Complete(Response(r, "400", NoBody, NoHash))
             /\ UNCHANGED <<reqs, overlap, submits>>
        ELSE IF PreSubmitError(Proof[hdr]) # ""
        THEN \E mt \in {m \in BOOLEAN : m => SignatureUnparsable(Proof[hdr])} :
               IF mt
               THEN /\ Suspend(nreq + 1,
                         [r EXCEPT !.pc = "verified", !.nver = @ + 1,
                                   !.vres = PreSubmitResult(Proof[hdr], TRUE, now)])
                    /\ last' = NoResponse
                    /\ UNCHANGED <<lastChallenge, admitted, submits>>
               ELSE /\ Complete(SdkAfterVerify(
                           [r EXCEPT !.vres = Invalid(PreSubmitError(Proof[hdr]), now),
                                     !.nver = @ + 1], idx))
                    /\ UNCHANGED <<reqs, overlap, submits>>
        ELSE /\ Suspend(nreq + 1, [r EXCEPT !.pc = "submitting", !.nver = @ + 1,
                                            !.nsub = @ + 1])
             /\ submits' = [submits EXCEPT ![Proof[hdr].transaction.id] = @ + 1]
             /\ last' = NoResponse
             /\ UNCHANGED <<lastChallenge, admitted>>
  /\ UNCHANGED <<deploy, now, verdicts>>
  /\ UNCHANGED <<mock, client, match>>

\* The middleware resumes after processPayment.  On isValid it calls next():
\* the route handler runs, and the handler of POST /orchestrate calls
\* facilitator.processPayment with the X-Payment header itself.
OrchRespond(i) ==
  /\ deploy.gw = "orchestrator"
  /\ reqs[i].target = "gateway"
  /\ reqs[i].pc = "verified"
  /\ Complete(SdkAfterVerify(reqs[i], findMatchingRoute(reqs[i].path, deploy.routes)))
  /\ IF reqs[i].vres.isValid /\ reqs[i].path = PathOrchestrate
     THEN IF PreSubmitError(Proof[reqs[i].hdr]) # ""
          THEN /\ \E mt \in BOOLEAN :
                    reqs' = [reqs EXCEPT ![i].target = "handler", ![i].nver = @ + 1,
                                         ![i].vres = PreSubmitResult(Proof[reqs[i].hdr], mt, now)]
               /\ UNCHANGED submits
          ELSE /\ reqs' = [reqs EXCEPT ![i].target = "handler", ![i].pc = "submitting",
                                       ![i].nver = @ + 1, ![i].nsub = @ + 1]
               /\ submits' = [submits EXCEPT ![Proof[reqs[i].hdr].transaction.id] = @ + 1]
     ELSE /\ reqs' = [reqs EXCEPT ![i] = Idle]
          /\ UNCHANGED submits
  /\ UNCHANGED <<deploy, now, nreq, verdicts, overlap>>
  /\ UNCHANGED <<mock, client, match>>

\* The handler of POST /orchestrate answers: the orchestration's result, or
\* 402 "Payment verification failed".
OrchHandlerRespond(i) ==
  /\ deploy.gw = "orchestrator"
  /\ reqs[i].target = "handler"
  /\ reqs[i].pc = "verified"
  /\ last' = Response(reqs[i], IF reqs[i].vres.isValid THEN "200" ELSE "402", NoBody, NoHash)
  /\ reqs' = [reqs EXCEPT ![i] = Idle]
  /\ UNCHANGED <<deploy, now, nreq, lastChallenge, admitted, submits, verdicts, overlap>>
  /\ UNCHANGED <<mock, client, match>>

NextOrch ==
  \/ \E l \in OrchLines, h \in Headers : OrchReceive(l[1], l[2], h)
  \/ \E i \in ReqIds : OrchRespond(i)
  \/ \E i \in ReqIds : OrchHandlerRespond(i)
  \/ \E i \in ReqIds, a \in BOOLEAN, t \in BOOLEAN : LedgerSubmitReturns(i, a, t)
  \/ \E i \in ReqIds, c \in BOOLEAN, t \in BOOLEAN, h \in BOOLEAN : LedgerWaitReturns(i, c, t, h)
  \/ \E d \in TickSteps : Tick(d)

SpecOrch == InitOrch /\ [][NextOrch]_vars

(* ------------------------------------------------------------------ *)
(* Properties                                                          *)
(* ------------------------------------------------------------------ *)

\* The step just taken completed a request to the gateway.
GatewayDone == last.target = "gateway" /\ last.status # "none"

\* The route-table entry the deployed middleware matches the completed
\* request to, 0 when none.
Matched ==
  IF deploy.gw \in {"sdk", "orchestrator"} THEN findMatchingRoute(last.path, deploy.routes)
  ELSE getPaymentConfig(RouteKey(last.method, last.path), deploy.routes)

MatchedPrice == deploy.routes[Matched].price

C2_NoHeaderAlways402 ==
  (GatewayDone /\ Matched # 0 /\ last.hdr = NoHeader)
    => (last.status = "402" /\ last.body.deadline = last.at + Window)

\* C3: a request that matches no entry of the route table is passed to the
\* downstream handler untouched: no challenge, no 402, no verification,
\* nothing put on the request.
C3_UnmatchedPassesThrough ==
  (GatewayDone /\ Matched = 0)
    => /\ last.status = "next"
       /\ last.body = NoBody
       /\ last.ctx = NoHash
       /\ last.vres = NoRes

\* An unmatched request that carries a proof passes through.
C3_Witness ==
  /\ GatewayDone /\ Matched = 0
  /\ last.path = PathFree
  /\ last.hdr \in ProofIds
  /\ last.status = "next"

\* C4: a request whose method and path are those of an entry keyed
\* "METHOD path", and that has no proof header, gets 402 with the entry's
\* amount; it is never passed through as free.
C4_MethodPathKeyCharged ==
  \A i \in 1..Len(deploy.routes) :
    (/\ GatewayDone
     /\ last.hdr = NoHeader
     /\ deploy.routes[i].key = RouteKey(last.method, last.path)
     /\ deploy.routes[i].price.t # "undefined")
      => /\ last.status = "402"
         /\ last.body.amount = StrPrice(deploy.routes[i].price.amount)

\* C5: the challenge of every 402 carries the matched price's amount (its
\* decimal string) and asset (the native coin only when the price names no
\* asset), for the string and the {amount, asset} form of the price.
C5_AmountAssetVerbatim ==
  (GatewayDone /\ last.status = "402" /\ MatchedPrice.t # "undefined")
    => /\ last.body.amount = StrPrice(MatchedPrice.amount)
       /\ last.body.token = IF MatchedPrice.t = "object" /\ MatchedPrice.asset # ""
                            THEN MatchedPrice.asset ELSE NativeCoin

\* C6: every challenge the gateway issues, for a missing proof and for a
\* rejected one, has deadline = issuance time + 5 minutes, so a deadline
\* after its issuance.
C6_DeadlineIsIssuancePlusWindow ==
  (GatewayDone /\ last.status = "402")
    => /\ last.body.deadline = last.at + 300000
       /\ last.body.deadline > last.at

\* A challenge issued for a rejected proof, after the clock has advanced.
C6_Witness ==
  /\ GatewayDone /\ last.status = "402"
  /\ last.body.message = "failed"
  /\ last.at > StartTime

\* C7: a proof presented after the deadline of the challenge it answers is
\* never verified as valid and never admitted; it fails as ExpiredChallenge.
C7_ExpiredNeverAdmitted ==
  (GatewayDone /\ Matched # 0 /\ last.expired)
    => /\ last.status # "next"
       /\ ~last.vres.isValid
       /\ last.vres.error = "ExpiredChallenge"

\* C8: once a request has been admitted with a proof, no later request that
\* carries a proof of the same transaction is admitted.
C8_ProofAdmittedOnce == GatewayDone => ~last.replay

\* Calls i and j of POST /verify have both been answered, for the same proof,
\* a proof the facilitator takes to the ledger.
SameProofAnswered(i, j) ==
  /\ verdicts[i].proof # 0
  /\ verdicts[i].proof = verdicts[j].proof
  /\ PreSubmitError(Proof[verdicts[i].proof]) = ""

\* C9: two calls of verify, one after the other, with the same proof return
\* the same result (isValid, transaction hash), and the transaction is
\* submitted to the ledger at most once.
C9_SequentialVerifyIdempotent ==
  \A i, j \in ReqIds :
    (i < j /\ SameProofAnswered(i, j) /\ <<i, j>> \notin overlap)
      => /\ verdicts[i] = verdicts[j]
         /\ submits[Proof[verdicts[i].proof].transaction.id] <= 1

\* C10: two requests processed concurrently whose proofs are of the same
\* transaction cause exactly one submission to the ledger, and both get
\* isValid=true with the same transaction hash.
C10_ConcurrentVerifyOnce ==
  \A i, j \in ReqIds :
    (i < j /\ SameProofAnswered(i, j) /\ <<i, j>> \in overlap)
      => /\ submits[Proof[verdicts[i].proof].transaction.id] = 1
         /\ verdicts[i].isValid /\ verdicts[j].isValid
         /\ verdicts[i].hash = verdicts[j].hash

\* C11: handling one inbound request (the gateway middleware and the route
\* handler it admits, POST /orchestrate included) makes at most one call of
\* verify and at most one submission to the ledger for the request's proof.
C11_OneSettlementPerRequest ==
  last.status # "none" => (last.nver <= 1 /\ last.nsub <= 1)

\* The verification of the completed request was made by the facilitator in
\* live mode.
LiveVerified ==
  /\ last.status # "none"
  /\ ~deploy.mockMode
  /\ last.hdr \in ProofIds
  /\ last.nver >= 1

\* C12: in live mode a result with isValid=true is returned only when the
\* submitted transaction reached Confirmed; after a confirmation wait that
\* timed out or failed the result is isValid=false with a reason.
C12_ValidOnlyWhenConfirmed ==
  LiveVerified
    => /\ last.vres.isValid => last.ledger = "Confirmed"
       /\ last.ledger \in {"TimedOut", "Failed"}
            => (~last.vres.isValid /\ last.vres.error # "")

\* A step of the verification of the completed request failed: the
\* transaction is not JSON, the proof was refused before the submission, or
\* the ledger refused the submission or did not confirm it.
StepFailed ==
  \/ Proof[last.hdr].transaction.form = "notjson"
  \/ ~deploy.mockMode /\ PreSubmitError(Proof[last.hdr]) # ""
  \/ last.ledger \in {"SubmitFailed", "TimedOut", "Failed"}

\* C13: processPayment, in both modes and for every input, returns a result
\* with verifiedAt set, and with isValid=false and a non-empty error whenever
\* a step failed (unparsable transaction, submission error, confirmation
\* timeout).
C13_ProcessPaymentAlwaysReturns ==
  (/\ last.status # "none"
   /\ last.hdr \in ProofIds
   /\ last.nver >= 1
   /\ last.vres.error # "Network Error"
   /\ deploy.gw = "sdk" \/ ~deploy.mockMode)
    => /\ last.vres.verifiedAt >= StartTime
       /\ StepFailed => (~last.vres.isValid /\ last.vres.error # "")

\* C14: for a request that carries a proof on a priced route the gateway
\* calls verify exactly once, and within one verify call the facilitator
\* submits to the ledger at most once: no resubmission after a failed
\* submission or a confirmation timeout.
C14_NoImplicitRetries ==
  /\ (GatewayDone /\ Matched # 0 /\ last.hdr \in ProofIds) => last.nver = 1
  /\ last.nsub <= last.nver
  /\ \A i \in ReqIds : reqs[i].nver <= 1 /\ reqs[i].nsub <= reqs[i].nver

\* A gateway request is answered after its one submission failed.
C14_Witness ==
  /\ GatewayDone /\ Matched # 0 /\ last.hdr \in ProofIds
  /\ last.ledger \in {"SubmitFailed", "TimedOut"}
  /\ last.nver = 1 /\ last.nsub = 1
  /\ last.status = "402"

\* The gateway found the payment of the completed request not valid: its
\* header is not parsable, or the verification returned isValid=false.
PaymentRejected ==
  \/ last.hdr = GarbageHeader
  \/ last.hdr \in ProofIds /\ last.nver >= 1 /\ ~last.vres.isValid

\* C15: every payment failure on a priced route (unparsable proof header,
\* rejected signature, submission failure, ...) is answered 402 with a reason
\* that differs from the plain payment-required message, never with a 5xx or
\* another status.
C15_FailuresAre402WithReason ==
  (GatewayDone /\ Matched # 0 /\ PaymentRejected)
    => /\ last.status = "402"
       /\ last.body.message = "failed"
       /\ last.body.error # ""

\* C16: an internal error while the gateway handles a request is answered
\* 500 with one fixed generic body, whatever the error's detail.
C16_GenericInternalError ==
  (GatewayDone /\ last.status = "500")
    => last.body = [NoBody EXCEPT !.error = "Internal server error in payment processing"]

\* A 500 for the route whose price is null (the TypeError's message differs
\* from the one for a route without price).
C16_Witness ==
  /\ GatewayDone /\ last.status = "500"
  /\ Matched # 0
  /\ MatchedPrice = Null
  /\ ThrowDetail(MatchedPrice) # ThrowDetail(Undefined)

\* The verification of the completed request met no failure of the ledger:
\* there was no submission, or the submission was confirmed.
LedgerDidNotFail == last.ledger \in {"none", "Confirmed"}

\* The completed gateway request carried the proof of a transfer on a priced
\* route whose price is well formed, and was verified in live mode.
LiveTransferOnPricedRoute ==
  /\ GatewayDone /\ Matched # 0
  /\ LiveVerified
  /\ ~PriceThrows(MatchedPrice)
  /\ Proof[last.hdr].transaction.form = "tx"

\* C17: a proof whose transfer is of less than the matched route's amount is
\* never verified as valid and never admits the request.  (Stated for live
\* mode and a ledger that does not fail, and without the kind of the failure,
\* InsufficientAmount.)
C17_InsufficientAmountRejected ==
  (/\ LiveTransferOnPricedRoute
   /\ LedgerDidNotFail
   /\ Proof[last.hdr].transaction.amount < Octas(MatchedPrice.amount))
    => /\ last.status # "next"
       /\ ~last.vres.isValid

\* C18: a proof whose transfer pays another address than the gateway's
\* payment address is never verified as valid and never admits the request.
\* (Stated for live mode and a ledger that does not fail, and without the
\* kind of the failure, WrongRecipient.)
C18_WrongRecipientRejected ==
  (/\ LiveTransferOnPricedRoute
   /\ LedgerDidNotFail
   /\ Proof[last.hdr].transaction.to # PayTo)
    => /\ last.status # "next"
       /\ ~last.vres.isValid

\* C19: a proof that lacks a required field (transaction, signature,
\* publicKey, address, timestamp) fails before any ledger interaction and
\* never yields isValid=true.  (Stated for live mode and a ledger that does
\* not fail, and without the kind of the failure, MalformedProof.)
C19_MalformedProofRejected ==
  (LiveVerified /\ LedgerDidNotFail /\ Proof[last.hdr].fields # ProofFields)
    => /\ ~last.vres.isValid
       /\ last.nsub = 0

\* C20: a proof whose signature is not one of its publicKey and address over
\* the transaction never yields isValid=true and is never submitted to the
\* ledger.  (Stated for live mode.)
C20_InvalidSignatureNeverSubmitted ==
  (LiveVerified /\ ~Proof[last.hdr].signed)
    => /\ ~last.vres.isValid
       /\ last.nsub = 0

(* ------------------------------------------------------------------ *)
(* Mock mode: an AptosFacilitator and a PaymentHandler called by        *)
(* themselves, under each configuration of mockMode                     *)
(* ------------------------------------------------------------------ *)

\* Calls of processPayment / verifyPayment in one behaviour.
MaxRuns == 2

\* The variables of the gateways, but the clock.
gateway == <<deploy, nreq, reqs, last, lastChallenge, admitted, submits, verdicts, overlap>>

\* No gateway is deployed.
NoGateway ==
  /\ deploy = [gw |-> "none", mockMode |-> FALSE, routes |-> <<>>]
  /\ now = StartTime
  /\ nreq = 0
  /\ reqs = [i \in ReqIds |-> Idle]
  /\ last = NoResponse
  /\ lastChallenge = 0
  /\ admitted = {}
  /\ submits = [t \in TxIds |-> 0]
  /\ verdicts = [i \in ReqIds |-> NoVerdict]
  /\ overlap = {}

\* mockMode?: boolean of the configuration: absent, true, false
MockModes == {"unset", "true", "false"}

\* The truthiness of this.config.mockMode
MockOn(mockMode) == mockMode = "true"

\* AptosFacilitator.processPayment(paymentRequest) at time t.  live: the
\* call went to createRealVerification; submitted: that one reached the
\* ledger's submit (its result is then the ledger's, NoRes here).
processPayment(mockMode, p, mentionsTimeout, t) ==
  IF ~MockOn(mockMode)
  THEN [who |-> "processPayment", hdr |-> p, at |-> t, live |-> TRUE,
        submitted |-> PreSubmitError(Proof[p]) = "",
        res |-> IF PreSubmitError(Proof[p]) = "" THEN NoRes
                ELSE PreSubmitResult(Proof[p], mentionsTimeout, t)]
  ELSE [who |-> "processPayment", hdr |-> p, at |-> t, live |-> FALSE,
        submitted |-> FALSE, res |-> processPaymentMock(Proof[p], t)]

\* PaymentHandler.verifyPayment(paymentHeader) at time t.  live: the header
\* was parsed and posted to the facilitator.
verifyPayment(mockMode, hdr, t) ==
  IF MockOn(mockMode)
  THEN [who |-> "verifyPayment", hdr |-> hdr, at |-> t, live |-> FALSE,
        submitted |-> FALSE, res |-> createMockVerification(t)]
  ELSE [who |-> "verifyPayment", hdr |-> hdr, at |-> t,
        live |-> hdr # GarbageHeader, submitted |-> FALSE,
        res |-> IF hdr = GarbageHeader THEN Invalid("Unexpected token", t) ELSE NoRes]

InitMock ==
  /\ NoGateway
  /\ mock \in [mockMode : MockModes, runs : {<<>>}]
  /\ client = NoClient
  /\ match = NoMatch

MockProcessPayment(p) ==
  /\ Len(mock.runs) < MaxRuns
  /\ \E mt \in {m \in BOOLEAN : m => ~MockOn(mock.mockMode) /\ SignatureUnparsable(Proof[p])} :
       mock' = [mock EXCEPT !.runs = Append(@, processPayment(mock.mockMode, p, mt, now))]
  /\ UNCHANGED <<gateway, now, client, match>>

MockVerifyPayment(hdr) ==
  /\ Len(mock.runs) < MaxRuns
  /\ mock' = [mock EXCEPT !.runs = Append(@, verifyPayment(mock.mockMode, hdr, now))]
  /\ UNCHANGED <<gateway, now, client, match>>

NextMock ==
  \/ \E p \in ProofIds : MockProcessPayment(p)
  \/ \E h \in Headers \ {NoHeader} : MockVerifyPayment(h)
  \/ \E d \in TickSteps : Tick(d)

SpecMock == InitMock /\ [][NextMock]_vars

\* The calls made so far.
Runs == 1..Len(mock.runs)

\* C21: in mock mode, two calls of verify on the same proof return the same
\* synthetic transaction hash, whatever the times of the two calls.
C21_MockHashDeterministic ==
  \A i \in Runs, j \in Runs :
    ( /\ MockOn(mock.mockMode)
      /\ mock.runs[i].who = mock.runs[j].who
      /\ mock.runs[i].hdr = mock.runs[j].hdr )
    => mock.runs[i].res.hash = mock.runs[j].res.hash

\* C22: in mock mode, every call of processPayment and of verifyPayment
\* returns isValid = true with a generated transaction hash.
C22_MockAlwaysValid ==
  \A i \in Runs :
    MockOn(mock.mockMode)
    => (mock.runs[i].res.isValid /\ mock.runs[i].res.hash # NoHash)

\* C23: mock mode is the default: a facilitator whose configuration does not
\* set mockMode submits no transaction to the ledger in processPayment; only
\* mockMode: false does.
C23_MockIsDefault ==
  \A i \in Runs :
    (mock.runs[i].who = "processPayment" /\ mock.runs[i].submitted)
    => mock.mockMode = "false"

(* ------------------------------------------------------------------ *)
(* The client driver: one call of X402Client.request                    *)
(* ------------------------------------------------------------------ *)

\* The fields of the payment object of a 402 body.
PaymentKeys == {"amount", "token", "recipient", "deadline", "nonce"}

\* The challenges a gateway issues at time t: createPaymentMiddleware's for
\* the prices of its table, createPaymentRequired's for those of the server's.
Challenges(t) ==
  {SdkChallenge(TableSdk[i].price, t, "required", "") : i \in 1..Len(TableSdk)}
    \cup {createPaymentRequired(TableServer[i].price, t, n) :
            i \in {j \in 1..Len(TableServer) : ~PriceThrows(TableServer[j].price)},
            n \in Nonces}

\* A payment object from which the nonce is left out.
JSONstringifyNoNonce(ch) ==
  [k \in {x \in PaymentKeys \ {"nonce"} : ~(x = "amount" /\ ch[x].t = "undefined")}
     |-> ch[k]]

\* res.status(402).json({payment: {...}, ...}): the payment object as JSON
\* text.  JSON.stringify leaves out the properties whose value is undefined
\* (a price that is not set, the nonce createPaymentMiddleware does not set).
JSONstringify(ch) ==
  [k \in {x \in PaymentKeys : ~ \/ (x = "amount" /\ ch[x].t = "undefined")
                                \/ (x = "nonce" /\ ch[x] = "")}
     |-> ch[k]]

\* response.data.payment as axios parses it: a property the text does not
\* have reads undefined (here the price Undefined, the string "", the
\* number 0).
JSONparse(json) ==
  [k \in PaymentKeys |->
     IF k \in DOMAIN json THEN json[k]
     ELSE IF k = "amount" THEN Undefined
     ELSE IF k = "deadline" THEN 0
     ELSE ""]

\* The 402 bodies a server may send at time t: a gateway's challenge issued
\* now or at the start, a challenge of amount "0", "-5" or "abc", a body
\* without payment.
Bodies(t) ==
  {[issued |-> ch, json |-> JSONstringify(ch)] : ch \in Challenges(t) \cup Challenges(StartTime)}
    \cup {[issued |-> NoBody, json |-> JSONstringify(SdkChallenge(StrPrice(a), t, "", ""))] :
            a \in {"0", "-5", "abc"}}
    \cup {[issued |-> NoBody, json |-> <<>>]}

\* response.status; 0: no response (timeout, connection refused)
Statuses == {0, 200, 402, 404, 500}

\* BigInt(amount): throws on an object and on a string that is no integer
\* literal; n is the integer else.
BigInt(amount) ==
  IF amount.t # "string" \/ amount.amount = "abc" THEN [throws |-> TRUE, n |-> 0]
  ELSE IF amount.amount = "-5" THEN [throws |-> FALSE, n |-> -5]
  ELSE [throws |-> FALSE, n |-> Octas(amount.amount)]

\* AptosUtils.validatePaymentPayload at time t; what BigInt throws is caught
\* and false returned.
validatePaymentPayload(payload, t) ==
  /\ ~ \/ payload.amount.t \in {"undefined", "null"}
       \/ (payload.amount.t = "string" /\ payload.amount.amount = "")
       \/ payload.token = ""
       \/ payload.recipient = ""
       \/ payload.deadline = 0
  /\ ~BigInt(payload.amount).throws
  /\ BigInt(payload.amount).n > 0
  /\ payload.deadline > t

NoProof == [to |-> "", amount |-> Undefined, token |-> ""]

\* No balance looked up yet.
NoBalance == [throws |-> FALSE, n |-> -1]

\* What aptos.getAccountCoinAmount gives for the account and the challenge's
\* token: it throws (node unreachable, no such coin), or the balance n.
Balances ==
  {[throws |-> TRUE, n |-> 0]}
    \cup {[throws |-> FALSE, n |-> b] : b \in {0, 999999, 1000000, 10000000}}

\* A balance check whose catch lets the payment go on.
checkBalanceOptimistic(balance, requiredAmount) ==
  IF balance.throws \/ BigInt(requiredAmount).throws THEN TRUE
  ELSE balance.n >= BigInt(requiredAmount).n

\* AptosUtils.checkBalance after `await this.aptos.getAccountCoinAmount(...)`:
\* BigInt(balance) >= BigInt(requiredAmount), false when anything threw.
checkBalance(balance, requiredAmount) ==
  IF balance.throws \/ BigInt(requiredAmount).throws THEN FALSE
  ELSE balance.n >= BigInt(requiredAmount).n

\* A transfer that always pays in the native coin.
createPaymentTransactionNative(paymentPayload) ==
  [to |-> paymentPayload.recipient, amount |-> paymentPayload.amount,
   token |-> NativeCoin]

\* AptosUtils.createPaymentTransaction: 0x1::coin::transfer<token>(recipient,
\* amount)
createPaymentTransaction(paymentPayload) ==
  [to |-> paymentPayload.recipient, amount |-> paymentPayload.amount,
   token |-> paymentPayload.token]

\* The call ends: response.data is returned, or an error is thrown.
Returns(c) == [c EXCEPT !.pc = "done", !.outcome = "returned"]

Throws(c, error) == [c EXCEPT !.pc = "done", !.outcome = "raised", !.error = error]

\* handlePaymentRequired up to `await this.aptosUtils.checkBalance(...)`
handlePaymentRequired(c, json, t) ==
  LET payment == JSONparse(json)
      d == [c EXCEPT !.payment = payment]
  IN IF ~validatePaymentPayload(payment, t)
     THEN Throws(d, "Invalid payment payload received from server")
     ELSE IF payment.deadline <= t
     THEN Throws(d, "Payment deadline has passed")
     ELSE [d EXCEPT !.pc = "balance"]

\* A driver that sends the request again when the server fails.
requestRetrying(c, status, json, t) ==
  LET d == [c EXCEPT !.first = status]
  IN IF status = 402 THEN handlePaymentRequired(d, json, t)
     ELSE IF status = 0 \/ status >= 500
     THEN IF c.sent < 2 THEN [d EXCEPT !.sent = @ + 1] ELSE Throws(d, "Network Error")
     ELSE Returns(d)

\* X402Client.request after `await axios(requestConfig)`: axios resolves on
\* a status below 500 and throws on the others and on no response.
request(c, status, json, t) ==
  LET d == [c EXCEPT !.first = status]
  IN IF status = 402 THEN handlePaymentRequired(d, json, t)
     ELSE IF status = 0 \/ status >= 500 THEN Throws(d, "Network Error")
     ELSE Returns(d)

\* A retry that, on a second 402, pays again while maxRetries allows.
retryWithPaymentLooping(c, status) ==
  LET d == [c EXCEPT !.second = status]
  IN IF status = 402
     THEN IF c.sent <= c.maxRetries THEN [d EXCEPT !.pc = "balance"]
          ELSE Throws(d, "Payment verification failed - server still requires payment")
     ELSE IF status = 0 \/ status >= 500 THEN Throws(d, "Payment retry failed")
     ELSE IF status >= 400 THEN Throws(d, "Request failed with status")
     ELSE Returns(d)

\* retryWithPayment after `await axios(requestConfig)`
retryWithPayment(c, status) ==
  LET d == [c EXCEPT !.second = status]
  IN IF status = 402
     THEN Throws(d, "Payment verification failed - server still requires payment")
     ELSE IF status = 0 \/ status >= 500 THEN Throws(d, "Payment retry failed")
     ELSE IF status >= 400 THEN Throws(d, "Request failed with status")
     ELSE Returns(d)

\* sent: HTTP requests sent to the server; signer: calls of
\* createPaymentTransaction; first, second: the status of the responses (-1:
\* none yet); issued: the challenge the gateway serialized into the 402 body;
\* balance: what the balance lookup gave.
InitClient ==
  /\ NoGateway
  /\ mock = NoMock
  /\ match = NoMatch
  /\ client \in [pc : {"start"}, maxRetries : {0, 3}, sent : {0}, signer : {0},
                 first : {-1}, second : {-1}, issued : {NoBody},
                 payment : {JSONparse(<<>>)}, proof : {NoProof},
                 balance : {NoBalance}, outcome : {"none"}, error : {""}]

\* request(url, options) up to its `await axios(requestConfig)`
ClientSend ==
  /\ client.pc = "start"
  /\ client' = [client EXCEPT !.pc = "first", !.sent = @ + 1]
  /\ UNCHANGED <<gateway, now, mock, match>>

\* The first response arrives (or none does).
FirstResponse(status, body) ==
  /\ client.pc = "first"
  /\ client' = request([client EXCEPT !.issued = IF status = 402 THEN body.issued ELSE NoBody],
                       status, body.json, now)
  /\ UNCHANGED <<gateway, now, mock, match>>

\* checkBalance returns; with the balance, createPaymentTransaction is called
\* and awaits the ledger node's transaction.build.simple.
BalanceReturns(balance) ==
  /\ client.pc = "balance"
  /\ client' = IF checkBalance(balance, client.payment.amount)
               THEN [client EXCEPT !.pc = "building", !.signer = @ + 1,
                                   !.balance = balance]
               ELSE Throws([client EXCEPT !.balance = balance],
                           "Insufficient balance for payment")
  /\ UNCHANGED <<gateway, now, mock, match>>

\* transaction.build.simple returns (or throws); the proof is put in the
\* X-Payment header and retryWithPayment sends the request again.
BuildReturns(built) ==
  /\ client.pc = "building"
  /\ client' = IF built
               THEN [client EXCEPT !.pc = "retry", !.sent = @ + 1,
                                   !.proof = createPaymentTransaction(client.payment)]
               ELSE Throws(client, "build failed")
  /\ UNCHANGED <<gateway, now, mock, match>>

\* The response to the retry arrives (or none does).
RetryResponse(status) ==
  /\ client.pc = "retry"
  /\ client' = retryWithPayment(client, status)
  /\ UNCHANGED <<gateway, now, mock, match>>

\* The steps of the call itself.
ClientSteps ==
  \/ ClientSend
  \/ \E s \in Statuses, b \in Bodies(now) : FirstResponse(s, b)
  \/ \E b \in Balances : BalanceReturns(b)
  \/ \E b \in BOOLEAN : BuildReturns(b)
  \/ \E s \in Statuses : RetryResponse(s)

NextClient ==
  \/ ClientSteps
  \/ \E d \in TickSteps : Tick(d)

SpecClient == InitClient /\ [][NextClient]_vars

\* Every await of the call returns or throws: axios ends a request at its
\* timeout, the ledger node answers or the connection fails.
SpecClientFair == SpecClient /\ WF_vars(ClientSteps)

\* C24: when the first response has a status other than 402, the call ends
\* at once with that outcome (the body returned for a status below 500, an
\* error raised else): no proof built, the signer not invoked, no second
\* request sent.
C24_NonPaymentResponseEndsCall ==
  (client.first # -1 /\ client.first # 402)
  => /\ client.pc = "done"
     /\ client.sent = 1
     /\ client.signer = 0
     /\ client.proof = NoProof
     /\ client.outcome = (IF client.first \in 1..499 THEN "returned" ELSE "raised")

C24_Witness ==
  /\ client.pc = "done"
  /\ client.first = 500
  /\ client.outcome = "raised"
  /\ client.sent = 1

\* C25: one call sends at most two requests; the second is sent only after
\* the first was answered 402 and the proof was built; a second 402 ends the
\* call with an error; and the call always ends, whatever maxRetries is.
C25_AtMostOneRetry ==
  /\ [](/\ client.sent <= 2
        /\ client.sent = 2
           => (client.first = 402 /\ client.signer = 1 /\ client.proof # NoProof)
        /\ (client.pc = "done" /\ client.second = 402) => client.outcome = "raised")
  /\ <>(client.pc = "done")

C25_Witness ==
  /\ client.pc = "done"
  /\ client.maxRetries = 3
  /\ client.sent = 2
  /\ client.second = 402
  /\ client.outcome = "raised"

\* C26: a 402 whose deadline is not after the client's clock makes the call
\* raise an error without the signer invoked and without a retry; and a proof
\* that is built pays the recipient, the amount and the asset of the
\* challenge.
C26_ExpiredChallengeNotPaid ==
  /\ [][(client.pc = "first" /\ client'.first = 402 /\ client'.payment.deadline <= now)
        => /\ client'.pc = "done"
           /\ client'.outcome = "raised"
           /\ client'.signer = 0
           /\ client'.sent = 1]_vars
  /\ [](client.proof # NoProof
        => /\ client.proof.to = client.payment.recipient
           /\ client.proof.amount = client.payment.amount
           /\ client.proof.token = client.payment.token)

C26_Witness ==
  /\ client.pc = "done"
  /\ client.first = 402
  /\ client.issued # NoBody
  /\ client.payment.deadline = StartTime + Window
  /\ now > client.payment.deadline
  /\ client.outcome = "raised"
  /\ client.signer = 0

MaxRoutes == 2

\* Lookups in one behaviour.
MaxLookups == 3

\* A path of two segments under "/p".
PathDeep == <<"/", "p", "/", "a", "/", "b">>

\* The entries tables are made of: exact and wildcard keys, of paths (the
\* SDK's middleware) and of method and path (the server's).
RouteEntries ==
  { [key |-> PathPremium, price |-> StrPrice("1000000")],
    [key |-> <<"/", "p", "/", "*">>, price |-> ObjPrice("10000000", OtherCoin)],
    [key |-> <<"/", "*", "/", "a">>, price |-> StrPrice("2000000")],
    [key |-> RouteKey(GET, PathPremium), price |-> StrPrice("5000000")],
    [key |-> GET \o <<" ", "/", "p", "/", "*">>, price |-> ObjPrice("2000000", OtherCoin)] }

\* The tables: the entries of an object literal in insertion order, each
\* key once.
RouteTables ==
  {t \in UNION {[1..n -> RouteEntries] : n \in 0..MaxRoutes} :
     \A i \in 1..Len(t), j \in 1..Len(t) : t[i].key = t[j].key => i = j}

\* The paths looked up.
LookupPaths == {PathPremium, PathDeep, PathFree}

\* The key a middleware looks up: req.path, or `${req.method} ${req.path}`
LookupKey(gw, method, path) == IF gw = "sdk" THEN path ELSE RouteKey(method, path)

\* A matcher whose regular expressions are kept between the calls with their
\* lastIndex: after a match, the next test of the same key fails.
RouteLookupSticky(gw, method, path, routes) ==
  IF /\ match.evals # <<>>
     /\ match.evals[Len(match.evals)].idx # 0
     /\ LookupKey(match.evals[Len(match.evals)].gw, match.evals[Len(match.evals)].method,
                  match.evals[Len(match.evals)].path) = LookupKey(gw, method, path)
  THEN 0
  ELSE MatchIndex(LookupKey(gw, method, path), routes)

\* findMatchingRoute(req.path, routes) of the SDK's middleware,
\* getPaymentConfig(route, paymentRoutes) of the server's
RouteLookup(gw, method, path, routes) ==
  IF gw = "sdk" THEN findMatchingRoute(path, routes)
  ELSE getPaymentConfig(RouteKey(method, path), routes)

\* Two entries of the table match one key that is looked up.
Colliding(routes) ==
  \E i \in 1..Len(routes), j \in 1..Len(routes), gw \in {"sdk", "server"},
     m \in Methods, p \in LookupPaths :
    /\ i # j
    /\ \A k \in {i, j} :
         \/ routes[k].key = LookupKey(gw, m, p)
         \/ WildcardHit(LookupKey(gw, m, p), routes, k)

InitMatch ==
  /\ NoGateway
  /\ mock = NoMock
  /\ client = NoClient
  /\ match \in [table : RouteTables, evals : {<<>>}]

\* One lookup; the functions read the table and write nothing.
Lookup(gw, method, path) ==
  /\ Len(match.evals) < MaxLookups
  /\ match' = [match EXCEPT !.evals =
                 Append(@, [gw |-> gw, method |-> method, path |-> path,
                            idx |-> RouteLookup(gw, method, path, match.table)])]
  /\ UNCHANGED <<gateway, now, mock, client>>

NextMatch ==
  \/ \E m \in Methods, p \in LookupPaths : Lookup("sdk", m, p)
  \/ \E m \in Methods, p \in LookupPaths : Lookup("server", m, p)

SpecMatch == InitMatch /\ [][NextMatch]_vars

\* The lookups made so far.
Evals == 1..Len(match.evals)

\* The key of lookup e.
EvalKey(e) == LookupKey(match.evals[e].gw, match.evals[e].method, match.evals[e].path)

\* C28: when the table holds both the exact key of the request and a
\* wildcard pattern that matches it, the lookup returns the entry of the
\* exact key, whatever the order of the two in the table.
C28_ExactBeforeWildcard ==
  \A e \in Evals :
    ( /\ \E i \in 1..Len(match.table) : match.table[i].key = EvalKey(e)
      /\ \E j \in 1..Len(match.table) : WildcardHit(EvalKey(e), match.table, j) )
    => /\ match.evals[e].idx # 0
       /\ match.table[match.evals[e].idx].key = EvalKey(e)

C28_Witness ==
  \E e \in Evals :
    /\ Len(match.table) = 2
    /\ WildcardHit(EvalKey(e), match.table, 1)
    /\ match.table[2].key = EvalKey(e)
    /\ match.evals[e].idx = 2

\* C29: a wildcard matches exactly one path segment: the key a wildcard
\* entry is returned for has as many segments as the entry's pattern.
C29_WildcardOneSegment ==
  \A e \in Evals :
    ( /\ match.evals[e].idx # 0
      /\ match.table[match.evals[e].idx].key # EvalKey(e) )
    => Cardinality({i \in 1..Len(EvalKey(e)) : EvalKey(e)[i] = "/"})
         = Cardinality({i \in 1..Len(match.table[match.evals[e].idx].key) :
                          match.table[match.evals[e].idx].key[i] = "/"})

C31_NonNegativeAmountsAccepted ==
  [][( /\ client.pc = "first"
       /\ client'.first = 402
       /\ client'.payment.token # ""
       /\ client'.payment.recipient # ""
       /\ client'.payment.deadline > now )
     => IF /\ ~BigInt(client'.payment.amount).throws
           /\ BigInt(client'.payment.amount).n >= 0
        THEN client'.pc = "balance"
        ELSE /\ client'.pc = "done"
             /\ client'.error = "Invalid payment payload received from server"]_vars

\* C32: when the downstream handler of a priced route runs, the request
\* carries the transaction hash of the one verification made for that
\* request, whose result was isValid=true; a hash of the ledger is the hash
\* of the transaction in the request's own proof.
C32_ContextIsOwnVerification ==
  (GatewayDone /\ Matched # 0 /\ last.status = "next")
    => /\ last.nver = 1
       /\ last.vres.isValid
       /\ last.ctx = last.vres.hash
       /\ last.ctx # NoHash
       /\ last.ctx.k = "ledger" => last.ctx.src = Proof[last.hdr].transaction.id

C32_Witness ==
  /\ GatewayDone /\ Matched # 0 /\ last.status = "next"
  /\ deploy.gw = "server" /\ ~deploy.mockMode
  /\ last.ctx = LedgerHash(Proof[last.hdr].transaction)
  /\ last.ledger = "Confirmed"
  /\ admitted # {}

\* The steps of a live verification attempt.  The ledger node answers the
\* submission or the connection fails, and waitForTransaction returns within
\* its timeoutSecs: 30; axios.post returns or fails.
AttemptSteps ==
  \E i \in ReqIds :
    \/ FacilitatorProcess(i)
    \/ PostFails(i)
    \/ \E a \in BOOLEAN, t \in BOOLEAN : LedgerSubmitReturns(i, a, t)
    \/ \E c \in BOOLEAN, t \in BOOLEAN, h \in BOOLEAN : LedgerWaitReturns(i, c, t, h)

SpecFair == Spec /\ WF_vars(AttemptSteps)

\* C33: a live verification attempt goes Received, Validating, Submitting,
\* AwaitingConfirmation, then Confirmed, Failed or TimedOut: the submission
\* is made only from the received proof after its parsing and validation
\* succeeded, the wait starts only from an answered submission, the attempt
\* ends once, with the outcome of the step it ended in, and every attempt
\* ends.
C33_AttemptStateMachine ==
  /\ [][\A i \in ReqIds :
          /\ (reqs'[i].pc = "submitting" /\ reqs[i].pc # "submitting")
             => (reqs[i].pc = "posted" /\ PreSubmitError(Proof[reqs[i].hdr]) = "")
          /\ (reqs'[i].pc = "awaiting" /\ reqs[i].pc # "awaiting")
             => (reqs[i].pc = "submitting" /\ reqs[i].nsub = 1)
          /\ reqs[i].pc = "verified" => reqs'[i].pc \in {"verified", "idle"}
          /\ (reqs'[i].pc = "verified" /\ reqs[i].pc # "verified")
             => reqs'[i].ledger \in
                  (IF reqs[i].pc = "awaiting" THEN {"Confirmed", "Failed", "TimedOut"}
                   ELSE IF reqs[i].pc = "submitting" THEN {"SubmitFailed"}
                   ELSE {"none"})]_vars
  /\ \A i \in ReqIds :
       (reqs[i].pc \in {"posted", "submitting", "awaiting"}) ~> (reqs[i].pc = "verified")

C33_Witness ==
  \E i \in ReqIds :
    /\ reqs[i].pc = "verified"
    /\ reqs[i].target = "verify"
    /\ reqs[i].ledger = "TimedOut"
    /\ reqs[i].nsub = 1

\* C34: a request that matches no priced route (with or without X-Payment)
\* and a request without X-Payment that is answered with a challenge cause no
\* call of verify and no submission to the ledger.
C34_NoVerifyWithoutPricedProof ==
  /\ []((GatewayDone /\ (Matched = 0 \/ last.hdr = NoHeader))
        => /\ last.nver = 0
           /\ last.nsub = 0
           /\ last.vres = NoRes
           /\ last.ledger = "none")
  /\ [][(last'.target = "gateway" /\ last'.status # "none" /\ last'.nver = 0)
        => submits' = submits]_vars

C34_Witness ==
  /\ GatewayDone /\ Matched # 0
  /\ last.hdr = NoHeader
  /\ last.status = "402"
  /\ ~deploy.mockMode
  /\ last.nver = 0
  /\ nreq = 2

\* C35: when no exact key matches and several wildcard patterns of the table
\* match the request, the lookup returns the first of them in table order.
C35_FirstWildcardWins ==
  \A e \in Evals :
    ( /\ \A i \in 1..Len(match.table) : match.table[i].key # EvalKey(e)
      /\ \E j \in 1..Len(match.table) : WildcardHit(EvalKey(e), match.table, j) )
    => /\ match.evals[e].idx # 0
       /\ WildcardHit(EvalKey(e), match.table, match.evals[e].idx)
       /\ \A j \in 1..(match.evals[e].idx - 1) : ~WildcardHit(EvalKey(e), match.table, j)

C35_Witness ==
  \E e \in Evals :
    /\ Len(match.table) = 2
    /\ WildcardHit(EvalKey(e), match.table, 1)
    /\ WildcardHit(EvalKey(e), match.table, 2)
    /\ match.evals[e].idx = 1

\* C36: in live mode a payment whose transaction text does not parse as JSON,
\* whose signature and public key cannot be decoded, or whose envelope is a
\* wallet message and not a transaction, is answered with isValid=false and
\* an error, and nothing of it is submitted to the ledger.
C36_UndecodableNeverValid ==
  (LiveVerified /\ PreSubmitError(Proof[last.hdr]) # "")
    => /\ ~last.vres.isValid
       /\ last.vres.error # ""
       /\ last.nsub = 0

\* The completed request was verified by the gateway through the remote
\* facilitator, and the verification it got back is not isValid=true (the post
\* failed, or the facilitator's body says isValid=false).
RemoteVerificationFailed ==
  /\ deploy.gw = "server"
  /\ ~deploy.mockMode
  /\ last.status # "none"
  /\ last.hdr \in ProofIds
  /\ last.nver >= 1
  /\ ~last.vres.isValid

BalanceCovers ==
  /\ client.balance # NoBalance
  /\ ~client.balance.throws
  /\ ~BigInt(client.payment.amount).throws
  /\ client.balance.n >= BigInt(client.payment.amount).n

\* C38: the client builds a payment transaction and sends the retry only
\* after the balance check for the challenge's token and amount succeeded;
\* when the balance is too small or the lookup fails, the call ends with the
\* error "Insufficient balance for payment", with no transaction signed and
\* no second request sent.
C38_PayOnlyWithBalance ==
  /\ (client.signer >= 1 \/ client.sent >= 2 \/ client.proof # NoProof
        \/ client.pc \in {"building", "retry"})
       => BalanceCovers
  /\ (client.balance # NoBalance /\ ~BalanceCovers)
       => /\ client.pc = "done"
          /\ client.outcome = "raised"
          /\ client.error = "Insufficient balance for payment"
          /\ client.signer = 0
          /\ client.sent = 1
          /\ client.proof = NoProof

\* The balance lookup failed and the call ended after its one request.
C38_Witness ==
  /\ client.balance.throws
  /\ client.pc = "done"
  /\ client.outcome = "raised"
  /\ client.sent = 1
  /\ client.signer = 0

\* The requests of the gateway that end in a step: the one that arrives and
\* is not suspended, and those in flight that leave.
EndsDirectly == nreq' = nreq + 1 /\ reqs'[nreq + 1].pc = "idle"

Leaving == {i \in ReqIds : reqs[i].pc # "idle" /\ reqs'[i].pc = "idle"}

\* C39: the gateway middleware completes every request with one outcome,
\* once: a step in which an outcome is produced (next() called, or a 402, 400
\* or 500 sent) ends exactly one request, a request ends only with an
\* outcome, a request that has ended never produces another, and the rest of
\* the middleware after the verification returned has an outcome on each of
\* its paths.
C39_OneOutcomePerRequest ==
  /\ [](\A i \in ReqIds :
         (deploy.gw = "server" /\ reqs[i].pc = "verified")
           => /\ reqs[i].target = "gateway"
              /\ \A n \in Nonces :
                   ServerAfterVerify(reqs[i], n).status \in {"next", "402", "500"})
  /\ [][deploy.gw \in {"sdk", "server"}
          => /\ last'.status # "none"
                  => /\ last'.target = "gateway"
                     /\ last'.status \in {"next", "402", "400", "500"}
                     /\ Cardinality(Leaving) + (IF EndsDirectly THEN 1 ELSE 0) = 1
             /\ (EndsDirectly \/ Leaving # {}) => last'.status # "none"
             /\ \A i \in ReqIds : (i <= nreq /\ reqs[i].pc = "idle") => reqs'[i].pc = "idle"
             /\ \A i \in Leaving :
                  /\ reqs[i].pc = "verified"
                  /\ last'.hdr = reqs[i].hdr
                  /\ last'.path = reqs[i].path]_vars

\* The second of two requests waited for the facilitator's verification and
\* was answered 402 after the ledger failed its transaction; no request is
\* left in flight.
C39_Witness ==
  /\ deploy.gw = "server"
  /\ last.status = "402"
  /\ last.nver = 1
  /\ last.ledger = "Failed"
  /\ nreq = 2
  /\ \A i \in ReqIds : reqs[i].pc = "idle"

====
